---- MODULE Spec2Model ----
(***************************************************************************)
(* Model of the Cairo VM segment manager                                   *)
(* (src/vm/vm_memory/memory_segments.rs, MemorySegmentManager) together    *)
(* with the write-once memory store it owns.                               *)
(*                                                                         *)
(* A manager is the record                                                 *)
(*   [memory, segment_sizes, segment_used_sizes, public_memory_offsets]    *)
(* and every method is an operator from a manager (and its arguments) to   *)
(* the record [self |-> manager afterwards, ret |-> returned value].       *)
(* Sequences are 1-based: segment index s is data[s + 1], offset o is      *)
(* position o + 1 of the segment.                                          *)
(***************************************************************************)
EXTENDS Integers, Sequences, FiniteSets, TLC

\* The four fields of the manager, the last method called with its arguments,
\* the value it returned, and the manager as it was when that call was made.
VARIABLES memory, segment_sizes, segment_used_sizes, public_memory_offsets,
          call, ret, old

vars == <<memory, segment_sizes, segment_used_sizes, public_memory_offsets,
          call, ret, old>>

(***************************************************************************)
(* Bounds of the model.                                                    *)
(***************************************************************************)
\* MaxWork bounds the size of a manager (segments, written cells and map
\* entries together), MaxOffset the offsets written to.
MaxWork == 3
MaxOffset == 1

\* What follows from the two bounds: the number of segments of either kind,
\* the length of a data vector that fits a segment, the declared sizes.
MaxSegments == MaxWork
MaxTemp == MaxWork
MaxLen == MaxOffset + 1
MaxSize == MaxOffset

(***************************************************************************)
(* Values: Option, Result, MaybeRelocatable.                               *)
(***************************************************************************)
None == [tag |-> "None"]
Some(x) == [tag |-> "Some", v |-> x]
Ok(x) == [ok |-> TRUE, v |-> x]
Err(e) == [ok |-> FALSE, e |-> e]

IntV(n) == [tag |-> "Int", n |-> n]
Ptr(s, o) == [tag |-> "Ptr", seg |-> s, off |-> o]

EmptyMap == [k \in {} |-> 0]
MapInsert(m, k, v) == [x \in DOMAIN m \cup {k} |-> IF x = k THEN v ELSE m[x]]

Max(a, b) == IF a >= b THEN a ELSE b

\* MaybeRelocatable::add_usize: shifts the offset of a pointer, adds to an integer.
add_usize(p, k) ==
    IF p.tag = "Ptr" THEN Ptr(p.seg, p.off + k) ELSE IntV(p.n + k)

\* from_relocatable_to_indexes: a negative segment index s is slot -(s + 1) of
\* the temporary memory.
from_relocatable_to_indexes(r) ==
    IF r.seg < 0 THEN <<-(r.seg + 1), r.off>> ELSE <<r.seg, r.off>>

(***************************************************************************)
(* Memory store: data and temp_data are vectors of segments, a segment is  *)
(* a vector of optional cells.                                             *)
(***************************************************************************)
Memory_new == [data |-> <<>>, temp_data |-> <<>>]

Holes(n) == [j \in 1..n |-> None]

\* Memory::insert
Memory_insert(mem, key, val) ==
    IF key.tag # "Ptr"
    THEN [mem |-> mem, ret |-> Err([kind |-> "AddressNotRelocatable"])]
    ELSE
      LET ix == from_relocatable_to_indexes(key)
          value_index == ix[1]
          value_offset == ix[2]
          temp == key.seg < 0
          dat == IF temp THEN mem.temp_data ELSE mem.data
      IN  IF value_index >= Len(dat)
          THEN [mem |-> mem,
                ret |-> Err([kind |-> "UnallocatedSegment", index |-> value_index,
                             len |-> Len(dat)])]
          ELSE
            LET segment == dat[value_index + 1]
                resized == IF Len(segment) <= value_offset
                           THEN segment \o Holes(value_offset + 1 - Len(segment))
                           ELSE segment
                current == resized[value_offset + 1]
                written == [resized EXCEPT ![value_offset + 1] = Some(val)]
                dat2 == [dat EXCEPT ![value_index + 1] = written]
            IN  IF current = None
                THEN [mem |-> IF temp THEN [mem EXCEPT !.temp_data = dat2]
                                      ELSE [mem EXCEPT !.data = dat2],
                      ret |-> Ok("unit")]
                ELSE IF current = Some(val)
                THEN [mem |-> mem, ret |-> Ok("unit")]
                ELSE [mem |-> mem,
                      ret |-> Err([kind |-> "InconsistentMemory", addr |-> key,
                                   old |-> current.v, new |-> val])]

\* Memory::get
Memory_get(mem, key) ==
    IF key.tag # "Ptr"
    THEN Err([kind |-> "AddressNotRelocatable"])
    ELSE
      LET ix == from_relocatable_to_indexes(key)
          dat == IF key.seg < 0 THEN mem.temp_data ELSE mem.data
      IN  IF ix[1] >= Len(dat)
          THEN Err([kind |-> "UnallocatedSegment", index |-> ix[1], len |-> Len(dat)])
          ELSE IF ix[2] >= Len(dat[ix[1] + 1])
          THEN Ok(None)
          ELSE Ok(dat[ix[1] + 1][ix[2] + 1])

\* Memory::get_range: count consecutive cells, a hole or a missing segment is an error.
RECURSIVE get_range_from(_, _, _, _)
get_range_from(mem, addr, size, i) ==
    IF i >= size
    THEN Ok(<<>>)
    ELSE LET c == Memory_get(mem, add_usize(addr, i))
         IN  IF ~c.ok THEN c
             ELSE IF c.v = None
             THEN Err([kind |-> "GetRangeMemoryGap", addr |-> add_usize(addr, i)])
             ELSE LET rest == get_range_from(mem, addr, size, i + 1)
                  IN  IF rest.ok THEN Ok(<<c.v.v>> \o rest.v) ELSE rest

Memory_get_range(mem, addr, size) == get_range_from(mem, addr, size, 0)

(***************************************************************************)
(* MemorySegmentManager                                                    *)
(***************************************************************************)
MemorySegmentManager_new ==
    [segment_sizes |-> EmptyMap,
     segment_used_sizes |-> None,
     public_memory_offsets |-> EmptyMap,
     memory |-> Memory_new]

num_segments(self) == Len(self.memory.data)

num_temp_segments(self) == Len(self.memory.temp_data)

\* add with the index taken after the push without the - 1.
add_index_after_push(self) ==
    LET pushed == Append(self.memory.data, <<>>)
    IN  [self |-> [self EXCEPT !.memory.data = pushed],
         ret |-> Ptr(Len(pushed), 0)]

add(self) ==
    LET pushed == Append(self.memory.data, <<>>)
    IN  [self |-> [self EXCEPT !.memory.data = pushed],
         ret |-> Ptr(Len(pushed) - 1, 0)]

\* add_temporary_segment with the - 1 of add kept: the first segment gets index 0.
add_temporary_segment_minus_one(self) ==
    LET pushed == Append(self.memory.temp_data, <<>>)
    IN  [self |-> [self EXCEPT !.memory.temp_data = pushed],
         ret |-> Ptr(-(Len(pushed) - 1), 0)]

\* add_temporary_segment that pushes the new segment onto the real segments.
add_temporary_segment_in_data(self) ==
    LET pushed == Append(self.memory.data, <<>>)
    IN  [self |-> [self EXCEPT !.memory.data = pushed],
         ret |-> Ptr(-(Len(self.memory.temp_data) + 1), 0)]

add_temporary_segment(self) ==
    LET pushed == Append(self.memory.temp_data, <<>>)
    IN  [self |-> [self EXCEPT !.memory.temp_data = pushed],
         ret |-> Ptr(-Len(pushed), 0)]

\* The loop of load_data from element num on: the first failing insert ends it.
RECURSIVE load_data_from(_, _, _, _)
load_data_from(mem, ptr, data, num) ==
    IF num >= Len(data)
    THEN [mem |-> mem, ret |-> Ok(add_usize(ptr, Len(data)))]
    ELSE LET r == Memory_insert(mem, add_usize(ptr, num), data[num + 1])
         IN  IF r.ret.ok
             THEN load_data_from(r.mem, ptr, data, num + 1)
             ELSE [mem |-> r.mem, ret |-> r.ret]

\* load_data that drops the result of every insert and always reports success.
RECURSIVE load_data_unchecked_from(_, _, _, _)
load_data_unchecked_from(mem, ptr, data, num) ==
    IF num >= Len(data)
    THEN [mem |-> mem, ret |-> Ok(add_usize(ptr, Len(data)))]
    ELSE load_data_unchecked_from(
             Memory_insert(mem, add_usize(ptr, num), data[num + 1]).mem,
             ptr, data, num + 1)

load_data_unchecked(self, ptr, data) ==
    LET r == load_data_unchecked_from(self.memory, ptr, data, 0)
    IN  [self |-> [self EXCEPT !.memory = r.mem], ret |-> r.ret]

\* load_data that goes on with the remaining elements after a failed insert
\* and returns the first error at the end.
RECURSIVE load_data_continue_from(_, _, _, _, _)
load_data_continue_from(mem, ptr, data, num, first) ==
    IF num >= Len(data)
    THEN [mem |-> mem,
          ret |-> IF first = None THEN Ok(add_usize(ptr, Len(data))) ELSE first.v]
    ELSE LET r == Memory_insert(mem, add_usize(ptr, num), data[num + 1])
         IN  load_data_continue_from(
                 r.mem, ptr, data, num + 1,
                 IF first = None /\ ~r.ret.ok THEN Some(r.ret) ELSE first)

load_data_continue(self, ptr, data) ==
    LET r == load_data_continue_from(self.memory, ptr, data, 0, None)
    IN  [self |-> [self EXCEPT !.memory = r.mem], ret |-> r.ret]

\* load_data that undoes its writes when an insert fails.
load_data_rolled_back(self, ptr, data) ==
    LET r == load_data_from(self.memory, ptr, data, 0)
    IN  [self |-> IF r.ret.ok THEN [self EXCEPT !.memory = r.mem] ELSE self,
         ret |-> r.ret]

\* load_data that returns the pointer it was given instead of the end.
load_data_returns_start(self, ptr, data) ==
    LET r == load_data_from(self.memory, ptr, data, 0)
    IN  [self |-> [self EXCEPT !.memory = r.mem],
         ret |-> IF r.ret.ok THEN Ok(ptr) ELSE r.ret]

load_data(self, ptr, data) ==
    LET r == load_data_from(self.memory, ptr, data, 0)
    IN  [self |-> [self EXCEPT !.memory = r.mem], ret |-> r.ret]

\* compute_effective_sizes that counts the written cells of a segment, so that
\* holes do not count.
compute_effective_sizes_no_holes(self) ==
    LET sizes == IF self.segment_used_sizes = None
                 THEN [i \in 1..Len(self.memory.data) |->
                          Cardinality({j \in 1..Len(self.memory.data[i]) :
                                          self.memory.data[i][j] # None})]
                 ELSE self.segment_used_sizes.v
    IN  [self |-> [self EXCEPT !.segment_used_sizes = Some(sizes)],
         ret |-> sizes]

\* compute_effective_sizes that forgets the trailing cell of every segment.
compute_effective_sizes_short(self) ==
    LET sizes == IF self.segment_used_sizes = None
                 THEN [i \in 1..Len(self.memory.data) |->
                          IF Len(self.memory.data[i]) = 0 THEN 0
                          ELSE Len(self.memory.data[i]) - 1]
                 ELSE self.segment_used_sizes.v
    IN  [self |-> [self EXCEPT !.segment_used_sizes = Some(sizes)],
         ret |-> sizes]

\* compute_effective_sizes without the cache: every call recomputes.
compute_effective_sizes_uncached(self) ==
    LET sizes == [i \in 1..Len(self.memory.data) |-> Len(self.memory.data[i])]
    IN  [self |-> [self EXCEPT !.segment_used_sizes = Some(sizes)],
         ret |-> sizes]

compute_effective_sizes(self) ==
    LET sizes == IF self.segment_used_sizes = None
                 THEN [i \in 1..Len(self.memory.data) |-> Len(self.memory.data[i])]
                 ELSE self.segment_used_sizes.v
    IN  [self |-> [self EXCEPT !.segment_used_sizes = Some(sizes)],
         ret |-> sizes]

get_segment_used_size(self, index) ==
    IF self.segment_used_sizes = None
    THEN None
    ELSE IF index < Len(self.segment_used_sizes.v)
    THEN Some(self.segment_used_sizes.v[index + 1])
    ELSE None

\* get_segment_size with the two sources swapped: the effective size first.
get_segment_size_used_first(self, index) ==
    IF get_segment_used_size(self, index) # None
    THEN get_segment_used_size(self, index)
    ELSE IF index \in DOMAIN self.segment_sizes
    THEN Some(self.segment_sizes[index])
    ELSE None

get_segment_size(self, index) ==
    IF index \in DOMAIN self.segment_sizes
    THEN Some(self.segment_sizes[index])
    ELSE get_segment_used_size(self, index)

\* The loop of relocate_segments from index i on, over the effective sizes.
RECURSIVE relocate_from(_, _, _)
relocate_from(self, relocation_table, i) ==
    IF i >= Len(self.segment_used_sizes.v)
    THEN Ok(relocation_table)
    ELSE LET segment_size == get_segment_size(self, i)
         IN  IF segment_size = None
             THEN Err([kind |-> "SegmentNotFinalized", index |-> i])
             ELSE relocate_from(self,
                                Append(relocation_table,
                                       relocation_table[i + 1] + segment_size.v),
                                i + 1)

\* relocate_segments that reads the effective sizes it iterates over instead
\* of get_segment_size.
RECURSIVE relocate_used_from(_, _, _)
relocate_used_from(self, relocation_table, i) ==
    IF i >= Len(self.segment_used_sizes.v)
    THEN Ok(relocation_table)
    ELSE relocate_used_from(self,
                            Append(relocation_table,
                                   relocation_table[i + 1]
                                       + self.segment_used_sizes.v[i + 1]),
                            i + 1)

relocate_segments_used_sizes(self) ==
    IF self.segment_used_sizes = None
    THEN Err([kind |-> "EffectiveSizesNotCalled"])
    ELSE LET r == relocate_used_from(self, <<1>>, 0)
         IN  Ok(SubSeq(r.v, 1, Len(r.v) - 1))

relocate_segments(self) ==
    LET first_addr == 1
    IN  IF self.segment_used_sizes = None
        THEN Err([kind |-> "EffectiveSizesNotCalled"])
        ELSE LET r == relocate_from(self, <<first_addr>>, 0)
             IN  IF r.ok THEN Ok(SubSeq(r.v, 1, Len(r.v) - 1)) ELSE r

\* is_valid_memory_value that compares with the number of real segments.
is_valid_memory_value_num_segments(self, value) ==
    IF self.segment_used_sizes = None
    THEN Err([kind |-> "EffectiveSizesNotCalled"])
    ELSE IF value.tag = "Int"
    THEN Ok(TRUE)
    ELSE IF value.seg < 0
    THEN Err([kind |-> "AddressInTemporarySegment", index |-> value.seg])
    ELSE Ok(value.seg < num_segments(self))

\* is_valid_memory_value that looks for a temporary segment of that index.
is_valid_memory_value_temporary(self, value) ==
    IF self.segment_used_sizes = None
    THEN Err([kind |-> "EffectiveSizesNotCalled"])
    ELSE IF value.tag = "Int"
    THEN Ok(TRUE)
    ELSE IF value.seg < 0
    THEN Ok(-(value.seg + 1) < num_temp_segments(self))
    ELSE Ok(value.seg < Len(self.segment_used_sizes.v))

is_valid_memory_value(self, value) ==
    IF self.segment_used_sizes = None
    THEN Err([kind |-> "EffectiveSizesNotCalled"])
    ELSE IF value.tag = "Int"
    THEN Ok(TRUE)
    ELSE IF value.seg < 0
    THEN Err([kind |-> "AddressInTemporarySegment", index |-> value.seg])
    ELSE Ok(value.seg < Len(self.segment_used_sizes.v))

\* A panic of the program, as a failed result of kind "panic".
Panic(msg) == Err([kind |-> "panic", msg |-> msg])

\* A successful result whose usize wrapped below zero: usize::MAX - below.
OkWrapped(below) == [ok |-> TRUE, usize_max_minus |-> below]

\* The loop of get_memory_holes from the k-th accessed address on:
\* accessed_offsets_sets maps a segment index to its size and the set of
\* offsets seen so far.
RECURSIVE get_memory_holes_from(_, _, _, _)
get_memory_holes_from(self, accessed_addresses, k, accessed_offsets_sets) ==
    IF k > Len(accessed_addresses)
    THEN Ok(accessed_offsets_sets)
    ELSE LET ix == from_relocatable_to_indexes(accessed_addresses[k])
             index == ix[1]
             offset == ix[2]
             seen == index \in DOMAIN accessed_offsets_sets
             size == get_segment_size(self, index)
         IN  IF ~seen /\ size = None
             THEN Err([kind |-> "SegmentNotFinalized", index |-> index])
             ELSE LET x == IF seen THEN accessed_offsets_sets[index]
                           ELSE [segment_size |-> size.v, offsets |-> {}]
                  IN  IF offset > x.segment_size
                      THEN Err([kind |-> "AccessedAddressOffsetBiggerThanSegmentSize",
                                addr |-> Ptr(index, offset),
                                size |-> x.segment_size])
                      ELSE get_memory_holes_from(
                               self, accessed_addresses, k + 1,
                               MapInsert(accessed_offsets_sets, index,
                                         [x EXCEPT !.offsets = @ \cup {offset}]))

\* The sum over the indexes below max that have an entry, in the integers.
RECURSIVE SumHoles(_, _)
SumHoles(accessed_offsets_sets, max) ==
    IF max = 0 THEN 0
    ELSE SumHoles(accessed_offsets_sets, max - 1)
         + (IF (max - 1) \in DOMAIN accessed_offsets_sets
            THEN accessed_offsets_sets[max - 1].segment_size
                 - Cardinality(accessed_offsets_sets[max - 1].offsets)
            ELSE 0)

\* get_memory_holes that sums over every segment below max that has a size,
\* touched or not.
get_memory_holes_all_sized(self, accessed_addresses, overflow_checks) ==
    IF self.segment_used_sizes = None
    THEN Err([kind |-> "MissingSegmentUsedSizes"])
    ELSE LET r == get_memory_holes_from(self, accessed_addresses, 1, EmptyMap)
             max == Max(Cardinality(DOMAIN self.segment_sizes),
                        Len(self.segment_used_sizes.v))
             sized == {index \in 0..(max - 1) :
                          get_segment_size(self, index) # None}
             all == [index \in DOMAIN r.v \cup sized |->
                        IF index \in DOMAIN r.v THEN r.v[index]
                        ELSE [segment_size |-> get_segment_size(self, index).v,
                              offsets |-> {}]]
         IN  IF ~r.ok THEN r
             ELSE LET below == {index \in DOMAIN r.v :
                                   /\ index < max
                                   /\ r.v[index].segment_size
                                          < Cardinality(r.v[index].offsets)}
                      total == SumHoles(all, max)
                  IN  IF overflow_checks /\ below # {}
                      THEN Panic("attempt to subtract with overflow")
                      ELSE IF total < 0 THEN OkWrapped(-total - 1)
                      ELSE Ok(total)

\* get_memory_holes that looks at the accessed addresses first and at the
\* effective sizes only when there is an address to place.
get_memory_holes_lazy_sizes(self, accessed_addresses, overflow_checks) ==
    IF accessed_addresses = <<>>
    THEN Ok(0)
    ELSE IF self.segment_used_sizes = None
    THEN Err([kind |-> "MissingSegmentUsedSizes"])
    ELSE LET r == get_memory_holes_from(self, accessed_addresses, 1, EmptyMap)
         IN  IF ~r.ok THEN r
             ELSE Ok(SumHoles(r.v, Max(Cardinality(DOMAIN self.segment_sizes),
                                       Len(self.segment_used_sizes.v))))

\* overflow_checks tells the build: with them a usize subtraction below zero
\* panics, without them it wraps, and so does the sum.
get_memory_holes(self, accessed_addresses, overflow_checks) ==
    IF self.segment_used_sizes = None
    THEN Err([kind |-> "MissingSegmentUsedSizes"])
    ELSE LET r == get_memory_holes_from(self, accessed_addresses, 1, EmptyMap)
             max == Max(Cardinality(DOMAIN self.segment_sizes),
                        Len(self.segment_used_sizes.v))
         IN  IF ~r.ok THEN r
             ELSE LET below == {index \in DOMAIN r.v :
                                   /\ index < max
                                   /\ r.v[index].segment_size
                                          < Cardinality(r.v[index].offsets)}
                      total == SumHoles(r.v, max)
                  IN  IF overflow_checks /\ below # {}
                      THEN Panic("attempt to subtract with overflow")
                      ELSE IF total < 0 THEN OkWrapped(-total - 1)
                      ELSE Ok(total)

\* finalize that records an empty public memory when none is given.
finalize_default_public(self, size, segment_index, public_memory) ==
    LET s1 == IF size # None
              THEN [self EXCEPT !.segment_sizes =
                        MapInsert(self.segment_sizes, segment_index, size.v)]
              ELSE self
        s2 == [s1 EXCEPT !.public_memory_offsets =
                   MapInsert(s1.public_memory_offsets, segment_index,
                             IF public_memory # None THEN public_memory.v ELSE <<>>)]
    IN  [self |-> s2, ret |-> "unit"]

finalize(self, size, segment_index, public_memory) ==
    LET s1 == IF size # None
              THEN [self EXCEPT !.segment_sizes =
                        MapInsert(self.segment_sizes, segment_index, size.v)]
              ELSE self
        s2 == IF public_memory # None
              THEN [s1 EXCEPT !.public_memory_offsets =
                        MapInsert(s1.public_memory_offsets, segment_index,
                                  public_memory.v)]
              ELSE s1
    IN  [self |-> s2, ret |-> "unit"]

\* MaybeRelocatable::from((segment_index, offset)) and Relocatable::into.
into(r) == Ptr(r.seg, r.off)

\* An argument passed as &dyn Any: one of the three types the downcasts know,
\* or any other type.
ArgValue(value) == [type |-> "MaybeRelocatable", value |-> value]
ArgVec(vector) == [type |-> "VecMaybeRelocatable", vector |-> vector]
ArgVecRelocatable(vector) == [type |-> "VecRelocatable", vector |-> vector]
ArgOther == [type |-> "Other"]

write_arg(self, ptr, arg) ==
    IF arg.type = "VecMaybeRelocatable"
    THEN load_data(self, into(ptr), arg.vector)
    ELSE IF arg.type = "VecRelocatable"
    THEN LET data == [i \in 1..Len(arg.vector) |-> into(arg.vector[i])]
         IN  load_data(self, into(ptr), data)
    ELSE [self |-> self, ret |-> Err([kind |-> "WriteArg"])]

\* gen_arg that returns what write_arg returns, the pointer past the data.
gen_arg_returns_end(self, arg) ==
    IF arg.type = "MaybeRelocatable"
    THEN [self |-> self, ret |-> Ok(arg.value)]
    ELSE IF arg.type \in {"VecMaybeRelocatable", "VecRelocatable"}
    THEN write_arg(add(self).self, add(self).ret, arg)
    ELSE [self |-> self, ret |-> Err([kind |-> "GenArgInvalidType"])]

gen_arg(self, arg) ==
    IF arg.type = "MaybeRelocatable"
    THEN [self |-> self, ret |-> Ok(arg.value)]
    ELSE IF arg.type \in {"VecMaybeRelocatable", "VecRelocatable"}
    THEN LET a == add(self)
             base == a.ret
             w == write_arg(a.self, base, arg)
         IN  IF w.ret.ok
             THEN [self |-> w.self, ret |-> Ok(into(base))]
             ELSE w
    ELSE [self |-> self, ret |-> Err([kind |-> "GenArgInvalidType"])]

\* A CairoArg.
Single(value) == [variant |-> "Single", value |-> value]
Array(values) == [variant |-> "Array", values |-> values]
Composed(cairo_args) == [variant |-> "Composed", cairo_args |-> cairo_args]

RECURSIVE gen_cairo_arg(_, _)
RECURSIVE gen_cairo_args_from(_, _, _, _)
\* The map over cairo_args collected into a Result: the arguments in order,
\* stopping at the first error.
gen_cairo_args_from(self, cairo_args, i, args) ==
    IF i > Len(cairo_args)
    THEN [self |-> self, ret |-> Ok(args)]
    ELSE LET r == gen_cairo_arg(self, cairo_args[i])
         IN  IF r.ret.ok
             THEN gen_cairo_args_from(r.self, cairo_args, i + 1,
                                      Append(args, r.ret.v))
             ELSE r

\* gen_cairo_arg that allocates the segment of a Composed before its children.
gen_cairo_arg_parent_first(self, arg) ==
    IF arg.variant = "Single"
    THEN [self |-> self, ret |-> Ok(arg.value)]
    ELSE IF arg.variant = "Array"
    THEN LET a == add(self)
             base == a.ret
             l == load_data(a.self, into(base), arg.values)
         IN  IF l.ret.ok
             THEN [self |-> l.self, ret |-> Ok(into(base))]
             ELSE l
    ELSE LET a == add(self)
             base == a.ret
             c == gen_cairo_args_from(a.self, arg.cairo_args, 1, <<>>)
         IN  IF ~c.ret.ok THEN c
             ELSE LET l == load_data(c.self, into(base), c.ret.v)
                  IN  IF l.ret.ok
                      THEN [self |-> l.self, ret |-> Ok(into(base))]
                      ELSE l

gen_cairo_arg(self, arg) ==
    IF arg.variant = "Single"
    THEN [self |-> self, ret |-> Ok(arg.value)]
    ELSE IF arg.variant = "Array"
    THEN LET a == add(self)
             base == a.ret
             l == load_data(a.self, into(base), arg.values)
         IN  IF l.ret.ok
             THEN [self |-> l.self, ret |-> Ok(into(base))]
             ELSE l
    ELSE LET c == gen_cairo_args_from(self, arg.cairo_args, 1, <<>>)
         IN  IF ~c.ret.ok THEN c
             ELSE LET a == add(c.self)
                      base == a.ret
                      l == load_data(a.self, into(base), c.ret.v)
                  IN  IF l.ret.ok
                      THEN [self |-> l.self, ret |-> Ok(into(base))]
                      ELSE l

(***************************************************************************)
(* The set_add hint.  It reaches its variables through ids_data: a name    *)
(* resolves to the address of the cell that holds the variable.            *)
(***************************************************************************)
\* Felt::to_usize: None for a negative felt (a representative near the prime)
\* and for one past the machine word; the word is scaled down to UsizeLimit.
UsizeLimit == 1073741824

to_usize(n) == IF n < 0 \/ n >= UsizeLimit THEN None ELSE Some(n)

\* get_integer_from_var_name: the cell of the variable, which must hold an Int.
get_integer_from_var_name(var_name, mem, ids_data) ==
    LET c == Memory_get(mem, ids_data[var_name])
    IN  IF ~c.ok THEN c
        ELSE IF c.v # None /\ c.v.v.tag = "Int" THEN Ok(c.v.v.n)
        ELSE Err([kind |-> "ExpectedInteger", addr |-> ids_data[var_name]])

\* get_ptr_from_var_name: the cell of the variable, which must hold a Ptr.
get_ptr_from_var_name(var_name, mem, ids_data) ==
    LET c == Memory_get(mem, ids_data[var_name])
    IN  IF ~c.ok THEN c
        ELSE IF c.v # None /\ c.v.v.tag = "Ptr" THEN Ok(c.v.v)
        ELSE Err([kind |-> "ExpectedRelocatable", addr |-> ids_data[var_name]])

\* insert_value_from_var_name: one write-once insert at the cell of the variable.
insert_value_from_var_name(var_name, value, mem, ids_data) ==
    Memory_insert(mem, ids_data[var_name], IntV(value))

\* set_ptr > set_end_ptr on Relocatable: segment index first, then offset.
gt(a, b) == a.seg > b.seg \/ (a.seg = b.seg /\ a.off > b.off)

\* Relocatable::sub: the distance of two addresses of one segment.
sub(a, b) ==
    IF a.seg # b.seg THEN Err([kind |-> "DiffIndexSub"])
    ELSE IF a.off < b.off THEN Err([kind |-> "CantSubOffset", a |-> a.off, b |-> b.off])
    ELSE Ok(a.off - b.off)

\* The loop of set_add over 0..=range_limit: the row that begins at set_end_ptr
\* is compared too.
RECURSIVE set_add_from_through_end(_, _, _, _, _, _, _)
set_add_from_through_end(mem, ids_data, set_ptr, elm_size, elm, range_limit, i) ==
    IF i > range_limit
    THEN insert_value_from_var_name("is_elm_in_set", 0, mem, ids_data)
    ELSE LET set_iter == Memory_get_range(mem, add_usize(set_ptr, i), elm_size)
         IN  IF ~set_iter.ok THEN [mem |-> mem, ret |-> set_iter]
             ELSE IF set_iter.v = elm
             THEN LET w == insert_value_from_var_name("index", i \div elm_size,
                                                      mem, ids_data)
                  IN  IF ~w.ret.ok THEN w
                      ELSE insert_value_from_var_name("is_elm_in_set", 1,
                                                      w.mem, ids_data)
             ELSE set_add_from_through_end(mem, ids_data, set_ptr, elm_size, elm,
                               range_limit, i + elm_size)

\* The loop of set_add that writes is_elm_in_set before index.
RECURSIVE set_add_from_flag_first(_, _, _, _, _, _, _)
set_add_from_flag_first(mem, ids_data, set_ptr, elm_size, elm, range_limit, i) ==
    IF i >= range_limit
    THEN insert_value_from_var_name("is_elm_in_set", 0, mem, ids_data)
    ELSE LET set_iter == Memory_get_range(mem, add_usize(set_ptr, i), elm_size)
         IN  IF ~set_iter.ok THEN [mem |-> mem, ret |-> set_iter]
             ELSE IF set_iter.v = elm
             THEN LET w == insert_value_from_var_name("is_elm_in_set", 1,
                                                      mem, ids_data)
                  IN  IF ~w.ret.ok THEN w
                      ELSE insert_value_from_var_name("index", i \div elm_size,
                                                      w.mem, ids_data)
             ELSE set_add_from_flag_first(mem, ids_data, set_ptr, elm_size, elm,
                               range_limit, i + elm_size)

\* The loop of set_add with rows numbered from 1.
RECURSIVE set_add_from_one_based(_, _, _, _, _, _, _)
set_add_from_one_based(mem, ids_data, set_ptr, elm_size, elm, range_limit, i) ==
    IF i >= range_limit
    THEN insert_value_from_var_name("is_elm_in_set", 0, mem, ids_data)
    ELSE LET set_iter == Memory_get_range(mem, add_usize(set_ptr, i), elm_size)
         IN  IF ~set_iter.ok THEN [mem |-> mem, ret |-> set_iter]
             ELSE IF set_iter.v = elm
             THEN LET w == insert_value_from_var_name("index", (i \div elm_size) + 1,
                                                      mem, ids_data)
                  IN  IF ~w.ret.ok THEN w
                      ELSE insert_value_from_var_name("is_elm_in_set", 1,
                                                      w.mem, ids_data)
             ELSE set_add_from_one_based(mem, ids_data, set_ptr, elm_size, elm,
                                         range_limit, i + elm_size)

\* The loop of set_add from row offset i on: (0..range_limit).step_by(elm_size).
RECURSIVE set_add_from(_, _, _, _, _, _, _)
set_add_from(mem, ids_data, set_ptr, elm_size, elm, range_limit, i) ==
    IF i >= range_limit
    THEN insert_value_from_var_name("is_elm_in_set", 0, mem, ids_data)
    ELSE LET set_iter == Memory_get_range(mem, add_usize(set_ptr, i), elm_size)
         IN  IF ~set_iter.ok THEN [mem |-> mem, ret |-> set_iter]
             ELSE IF set_iter.v = elm
             THEN LET w == insert_value_from_var_name("index", i \div elm_size,
                                                      mem, ids_data)
                  IN  IF ~w.ret.ok THEN w
                      ELSE insert_value_from_var_name("is_elm_in_set", 1,
                                                      w.mem, ids_data)
             ELSE set_add_from(mem, ids_data, set_ptr, elm_size, elm,
                               range_limit, i + elm_size)

\* set_add that reports the set range with its two ends exchanged.
set_add_swapped_range(mem, ids_data) ==
    LET fail(e) == [mem |-> mem, ret |-> e]
        set_ptr == get_ptr_from_var_name("set_ptr", mem, ids_data)
        elm_int == get_integer_from_var_name("elm_size", mem, ids_data)
        elm_size == to_usize(elm_int.v)
        elm_ptr == get_ptr_from_var_name("elm_ptr", mem, ids_data)
        set_end_ptr == get_ptr_from_var_name("set_end_ptr", mem, ids_data)
        elm == Memory_get_range(mem, elm_ptr.v, elm_size.v)
        range_limit == sub(set_end_ptr.v, set_ptr.v)
    IN  IF ~set_ptr.ok THEN fail(set_ptr)
        ELSE IF ~elm_int.ok THEN fail(elm_int)
        ELSE IF elm_size = None THEN fail(Err([kind |-> "BigintToUsizeFail"]))
        ELSE IF ~elm_ptr.ok THEN fail(elm_ptr)
        ELSE IF ~set_end_ptr.ok THEN fail(set_end_ptr)
        ELSE IF elm_size.v = 0
        THEN fail(Err([kind |-> "ValueNotPositive", value |-> elm_size.v]))
        ELSE IF ~elm.ok THEN fail(elm)
        ELSE IF gt(set_ptr.v, set_end_ptr.v)
        THEN fail(Err([kind |-> "InvalidSetRange", begin |-> set_end_ptr.v,
                       end |-> set_ptr.v]))
        ELSE IF ~range_limit.ok THEN fail(range_limit)
        ELSE set_add_from(mem, ids_data, set_ptr.v, elm_size.v, elm.v,
                          range_limit.v, 0)

set_add(mem, ids_data) ==
    LET fail(e) == [mem |-> mem, ret |-> e]
        set_ptr == get_ptr_from_var_name("set_ptr", mem, ids_data)
        elm_int == get_integer_from_var_name("elm_size", mem, ids_data)
        elm_size == to_usize(elm_int.v)
        elm_ptr == get_ptr_from_var_name("elm_ptr", mem, ids_data)
        set_end_ptr == get_ptr_from_var_name("set_end_ptr", mem, ids_data)
        elm == Memory_get_range(mem, elm_ptr.v, elm_size.v)
        range_limit == sub(set_end_ptr.v, set_ptr.v)
    IN  IF ~set_ptr.ok THEN fail(set_ptr)
        ELSE IF ~elm_int.ok THEN fail(elm_int)
        ELSE IF elm_size = None THEN fail(Err([kind |-> "BigintToUsizeFail"]))
        ELSE IF ~elm_ptr.ok THEN fail(elm_ptr)
        ELSE IF ~set_end_ptr.ok THEN fail(set_end_ptr)
        ELSE IF elm_size.v = 0
        THEN fail(Err([kind |-> "ValueNotPositive", value |-> elm_size.v]))
        ELSE IF ~elm.ok THEN fail(elm)
        ELSE IF gt(set_ptr.v, set_end_ptr.v)
        THEN fail(Err([kind |-> "InvalidSetRange", begin |-> set_ptr.v,
                       end |-> set_end_ptr.v]))
        ELSE IF ~range_limit.ok THEN fail(range_limit)
        ELSE set_add_from(mem, ids_data, set_ptr.v, elm_size.v, elm.v,
                          range_limit.v, 0)

(***************************************************************************)
(* Inputs                                                                  *)
(***************************************************************************)
Values == {IntV(1), IntV(2)}

RealAddresses == {Ptr(s, o) : s \in 0..(MaxSegments - 1), o \in 0..MaxOffset}

TempAddresses == {Ptr(-t, 0) : t \in 1..MaxTemp}

Addresses == RealAddresses \cup TempAddresses \cup {IntV(1)}

\* The vectors 1, 2, 1, ... of every length up to MaxLen.
DataVecs ==
    {[j \in 1..n |-> IF j % 2 = 1 THEN IntV(1) ELSE IntV(2)] : n \in 0..MaxLen}

SegmentIndexes == 0..(MaxSegments - 1)

Sizes == {None, Some(0), Some(MaxSize)}

PublicMemories == {None, Some(<< <<0, 0>> >>)}

ArgVecs == {<<IntV(1)>>, <<IntV(1), IntV(2)>>}

RelocatableVecs == {<<Ptr(0, 0)>>}

Args ==
    {ArgValue(IntV(1)), ArgValue(Ptr(0, 0)), ArgOther}
    \cup {ArgVec(vector) : vector \in ArgVecs}
    \cup {ArgVecRelocatable(vector) : vector \in RelocatableVecs}

FlatCairoArgs == {Single(IntV(1)), Array(<<>>), Array(<<IntV(2)>>)}

CairoArgs ==
    FlatCairoArgs
    \cup {Composed(<<>>)}
    \cup {Composed(<<x>>) : x \in FlatCairoArgs}
    \cup {Composed(<<Single(IntV(1)), x>>) : x \in FlatCairoArgs}

\* CairoArgs one level deeper: a Composed of one or two children, each a flat
\* argument or itself a Composed.
NestedChildren == FlatCairoArgs \cup {Composed(<<>>), Composed(<<Array(<<>>)>>)}

NestedCairoArgs ==
    {Composed(<<x>>) : x \in NestedChildren}
    \cup {Composed(<<x, y>>) : x \in NestedChildren, y \in NestedChildren}

\* The variables of set_add: six consecutive cells of the frame in segment 1.
IdsData ==
    [is_elm_in_set |-> Ptr(1, 0), index |-> Ptr(1, 1), set_ptr |-> Ptr(1, 2),
     elm_size |-> Ptr(1, 3), elm_ptr |-> Ptr(1, 4), set_end_ptr |-> Ptr(1, 5)]

\* Segments of at most n written cells.
CellSeqs(n) == UNION {[1..k -> {Some(IntV(1)), Some(IntV(2))}] : k \in 0..n}

\* The two output cells before the hint: both holes, or one of them written.
OutputCells ==
    {<<None, None>>, <<Some(IntV(0)), None>>, <<Some(IntV(1)), None>>,
     <<None, Some(IntV(0))>>, <<None, Some(IntV(1))>>}

SetPtrs == {Ptr(2, 0), Ptr(2, 1), Ptr(3, 0)}

SetEndPtrs == {Ptr(2, o) : o \in 0..MaxLen} \cup {Ptr(3, 0)}

ElmSizes ==
    {IntV(n) : n \in 0..MaxLen} \cup {IntV(-2), IntV(UsizeLimit), Ptr(2, 0)}

\* A memory set_add is run on: an empty segment 0, the frame in segment 1,
\* the set in segment 2 and the element in segment 3.
SetAddMemory(out, set_ptr, elm_size, set_end_ptr, set, elm) ==
    [data |-> << <<>>,
                 <<out[1], out[2], Some(set_ptr), Some(elm_size),
                   Some(Ptr(3, 0)), Some(set_end_ptr)>>,
                 set, elm >>,
     temp_data |-> <<>>]

\* Values asked about: an integer, pointers into real segments and pointers
\* into temporary segments, at offset 0 and at a later offset.
MemoryValues ==
    {IntV(1), Ptr(0, MaxOffset), Ptr(-1, 0), Ptr(-2, MaxOffset)}
    \cup {Ptr(seg, 0) : seg \in 0..MaxSegments}

\* Accessed addresses, in iteration order: none, one, a repeated one, two of
\* one segment, two segments in either order, past the end, temporary.
AccessedAddresses ==
    {<<>>,
     <<Ptr(0, 0)>>,
     <<Ptr(0, MaxOffset)>>,
     <<Ptr(0, 0), Ptr(0, 0)>>,
     <<Ptr(0, 0), Ptr(0, MaxOffset)>>,
     <<Ptr(1, 0)>>,
     <<Ptr(1, 0), Ptr(0, MaxLen)>>,
     <<Ptr(0, MaxLen), Ptr(1, 0)>>,
     <<Ptr(-1, 0)>>}

(***************************************************************************)
(* State machine                                                           *)
(***************************************************************************)
Self ==
    [segment_sizes |-> segment_sizes,
     segment_used_sizes |-> segment_used_sizes,
     public_memory_offsets |-> public_memory_offsets,
     memory |-> memory]

\* A call on the manager: the fields become those of self, the call and what
\* it returned are recorded, and old keeps the manager the call started from.
Called(c, self, r) ==
    /\ memory' = self.memory
    /\ segment_sizes' = self.segment_sizes
    /\ segment_used_sizes' = self.segment_used_sizes
    /\ public_memory_offsets' = self.public_memory_offsets
    /\ call' = c
    /\ ret' = r
    /\ old' = Self

\* The cell at an address: None for a hole, for an offset beyond the segment's
\* length and for a segment that does not exist.
CellAt(mem, a) ==
    LET dat == IF a.seg < 0 THEN mem.temp_data ELSE mem.data
        ix == IF a.seg < 0 THEN -(a.seg + 1) ELSE a.seg
    IN  IF ix < Len(dat) /\ a.off < Len(dat[ix + 1])
        THEN dat[ix + 1][a.off + 1]
        ELSE None

\* The written cells of a vector of segments.
CountAll(dat) ==
    Cardinality({c \in UNION {{<<i, j>> : j \in 1..Len(dat[i])} : i \in 1..Len(dat)} :
                    dat[c[1]][c[2]] # None})

\* The size of a manager: segments, written cells and entries of the two maps.
Work(self) ==
    Len(self.memory.data) + Len(self.memory.temp_data)
    + CountAll(self.memory.data) + CountAll(self.memory.temp_data)
    + Cardinality(DOMAIN self.segment_sizes)
    + Cardinality(DOMAIN self.public_memory_offsets)

\* The number of cells a write of n values at ptr asks for that are not written
\* yet.
Fresh(ptr, n) ==
    IF ptr.tag # "Ptr" THEN n
    ELSE Cardinality({t \in 0..(n - 1) : CellAt(memory, add_usize(ptr, t)) = None})

\* The entries a finalize adds to the two maps.
FreshEntries(size, segment_index, public_memory) ==
    (IF size # None /\ segment_index \notin DOMAIN segment_sizes THEN 1 ELSE 0)
    + (IF public_memory # None /\ segment_index \notin DOMAIN public_memory_offsets
       THEN 1 ELSE 0)

\* The segments and the cells a gen_arg adds.
ArgSegments(arg) ==
    IF arg.type \in {"VecMaybeRelocatable", "VecRelocatable"} THEN 1 ELSE 0

ArgCells(arg) ==
    IF arg.type \in {"VecMaybeRelocatable", "VecRelocatable"}
    THEN Len(arg.vector)
    ELSE 0

\* The segments and the cells a gen_cairo_arg adds.
RECURSIVE CairoArgSegments(_)
CairoArgSegments(arg) ==
    IF arg.variant = "Single" THEN 0
    ELSE IF arg.variant = "Array" THEN 1
    ELSE LET n == Len(arg.cairo_args)
         IN  1 + (IF n >= 1 THEN CairoArgSegments(arg.cairo_args[1]) ELSE 0)
               + (IF n >= 2 THEN CairoArgSegments(arg.cairo_args[2]) ELSE 0)

RECURSIVE CairoArgCells(_)
CairoArgCells(arg) ==
    IF arg.variant = "Single" THEN 0
    ELSE IF arg.variant = "Array" THEN Len(arg.values)
    ELSE LET n == Len(arg.cairo_args)
         IN  n + (IF n >= 1 THEN CairoArgCells(arg.cairo_args[1]) ELSE 0)
               + (IF n >= 2 THEN CairoArgCells(arg.cairo_args[2]) ELSE 0)

\* Addresses in an allocated segment, or at the start of the first
\* unallocated one, of either kind.
Near(addr) ==
    addr.tag = "Ptr"
    => /\ addr.seg <= num_segments(Self)
       /\ addr.seg = num_segments(Self) => addr.off = 0
       /\ -addr.seg <= num_temp_segments(Self) + 1

Init ==
    /\ memory = MemorySegmentManager_new.memory
    /\ segment_sizes = MemorySegmentManager_new.segment_sizes
    /\ segment_used_sizes = MemorySegmentManager_new.segment_used_sizes
    /\ public_memory_offsets = MemorySegmentManager_new.public_memory_offsets
    /\ call = [op |-> "new"]
    /\ ret = "unit"
    /\ old = MemorySegmentManager_new

Add ==
    /\ Work(Self) < MaxWork
    /\ LET r == add(Self)
       IN  Called([op |-> "add"], r.self, r.ret)

AddTemporarySegment ==
    /\ Work(Self) < MaxWork
    /\ LET r == add_temporary_segment(Self)
       IN  Called([op |-> "add_temporary_segment"], r.self, r.ret)

Insert ==
    LET room == MaxWork - Work(Self)
    IN  \E key \in Addresses, val \in Values :
            /\ Near(key)
            /\ Fresh(key, 1) <= room
            /\ LET r == Memory_insert(memory, key, val)
               IN  Called([op |-> "insert", key |-> key, val |-> val],
                          [Self EXCEPT !.memory = r.mem], r.ret)

LoadData ==
    LET room == MaxWork - Work(Self)
    IN  \E ptr \in RealAddresses \cup {IntV(1)}, data \in DataVecs :
            /\ Near(ptr)
            /\ ptr.tag = "Ptr" => ptr.off + Len(data) <= MaxOffset + 1
            /\ Fresh(ptr, Len(data)) <= room
            /\ LET r == load_data(Self, ptr, data)
               IN  Called([op |-> "load_data", ptr |-> ptr, data |-> data],
                          r.self, r.ret)

ComputeEffectiveSizes ==
    LET r == compute_effective_sizes(Self)
    IN  Called([op |-> "compute_effective_sizes"], r.self, r.ret)

GetSegmentSize ==
    \E index \in SegmentIndexes :
        /\ index <= num_segments(Self)
        /\ Called([op |-> "get_segment_size", index |-> index],
               Self, get_segment_size(Self, index))

RelocateSegments ==
    Called([op |-> "relocate_segments"], Self, relocate_segments(Self))

Finalize ==
    LET room == MaxWork - Work(Self)
    IN  \E size \in Sizes, segment_index \in SegmentIndexes,
           public_memory \in PublicMemories :
            /\ segment_index <= num_segments(Self)
            /\ FreshEntries(size, segment_index, public_memory) <= room
            /\ LET r == finalize(Self, size, segment_index, public_memory)
               IN  Called([op |-> "finalize", size |-> size,
                           segment_index |-> segment_index,
                           public_memory |-> public_memory],
                          r.self, r.ret)

GenArg ==
    LET room == MaxWork - Work(Self)
    IN  \E arg \in Args :
            /\ ArgSegments(arg) + ArgCells(arg) <= room
            /\ LET r == gen_arg(Self, arg)
               IN  Called([op |-> "gen_arg", arg |-> arg], r.self, r.ret)

GenCairoArg ==
    LET room == MaxWork - Work(Self)
    IN  \E arg \in CairoArgs :
            /\ CairoArgSegments(arg) + CairoArgCells(arg) <= room
            /\ LET r == gen_cairo_arg(Self, arg)
               IN  Called([op |-> "gen_cairo_arg", arg |-> arg], r.self, r.ret)

WriteArg ==
    LET room == MaxWork - Work(Self)
    IN  \E ptr \in RealAddresses, arg \in Args :
            /\ ptr.seg < num_segments(Self)
            /\ ptr.off = 0
            /\ IF arg.type \in {"VecMaybeRelocatable", "VecRelocatable"}
               THEN /\ ptr.off + Len(arg.vector) <= MaxOffset + 1
                    /\ Fresh(ptr, Len(arg.vector)) <= room
               ELSE ptr.seg = 0
            /\ LET r == write_arg(Self, ptr, arg)
               IN  Called([op |-> "write_arg", ptr |-> ptr, arg |-> arg],
                          r.self, r.ret)

IsValidMemoryValue ==
    \E value \in MemoryValues :
        /\ value.tag = "Ptr" => value.seg <= num_segments(Self)
        /\ Called([op |-> "is_valid_memory_value", value |-> value],
                  Self, is_valid_memory_value(Self, value))

GetMemoryHoles ==
    \E accessed_addresses \in AccessedAddresses, overflow_checks \in BOOLEAN :
        \* The two builds differ only where the build with overflow checks
        \* panics.
        /\ overflow_checks
           \/ get_memory_holes(Self, accessed_addresses, TRUE)
                  = Panic("attempt to subtract with overflow")
        /\ Called([op |-> "get_memory_holes",
                   accessed_addresses |-> accessed_addresses,
                   overflow_checks |-> overflow_checks],
                  Self,
                  get_memory_holes(Self, accessed_addresses, overflow_checks))

Next ==
    \/ Add
    \/ AddTemporarySegment
    \/ Insert
    \/ LoadData
    \/ ComputeEffectiveSizes
    \/ GetSegmentSize
    \/ RelocateSegments
    \/ Finalize
    \/ GenArg
    \/ GenCairoArg
    \/ WriteArg

Spec == Init /\ [][Next]_vars

\* gen_cairo_arg on the deeper arguments, with room for their segments.
MaxNestedWork == 2 * MaxWork

GenCairoArgNested ==
    LET room == MaxNestedWork - Work(Self)
    IN  \E arg \in NestedCairoArgs :
            /\ CairoArgSegments(arg) + CairoArgCells(arg) <= room
            /\ LET r == gen_cairo_arg(Self, arg)
               IN  Called([op |-> "gen_cairo_arg", arg |-> arg], r.self, r.ret)

\* The queries on the sizes, over the managers that add, insert, finalize and
\* compute_effective_sizes build.
NextQueries ==
    \/ Add
    \/ AddTemporarySegment
    \/ Insert
    \/ ComputeEffectiveSizes
    \/ Finalize
    \/ RelocateSegments
    \/ IsValidMemoryValue
    \/ GetMemoryHoles

SpecQueries == Init /\ [][NextQueries]_vars

NextMarshal ==
    \/ Add
    \/ AddTemporarySegment
    \/ GenCairoArg
    \/ GenCairoArgNested

SpecMarshal == Init /\ [][NextMarshal]_vars

\* The writes into memory: insert and load_data on the segments that add and
\* add_temporary_segment allocate.
NextLoad ==
    \/ Add
    \/ AddTemporarySegment
    \/ Insert
    \/ LoadData

SpecLoad == Init /\ [][NextLoad]_vars

\* A manager whose memory holds a frame, a set and an element.
InitSetAdd ==
    /\ \E out \in OutputCells, set_ptr \in SetPtrs, elm_size \in ElmSizes,
          set_end_ptr \in SetEndPtrs, set \in CellSeqs(MaxLen + 1),
          elm \in CellSeqs(MaxLen) :
           memory = SetAddMemory(out, set_ptr, elm_size, set_end_ptr, set, elm)
    /\ segment_sizes = MemorySegmentManager_new.segment_sizes
    /\ segment_used_sizes = MemorySegmentManager_new.segment_used_sizes
    /\ public_memory_offsets = MemorySegmentManager_new.public_memory_offsets
    /\ call = [op |-> "new"]
    /\ ret = "unit"
    /\ old = [MemorySegmentManager_new EXCEPT !.memory = memory]

SetAdd ==
    LET r == set_add(memory, IdsData)
    IN  Called([op |-> "set_add"], [Self EXCEPT !.memory = r.mem], r.ret)

NextSetAdd == SetAdd

SpecSetAdd == InitSetAdd /\ [][NextSetAdd]_vars

(***************************************************************************)
(* Observations used by the properties.  Every property is about the last  *)
(* call: old is the manager before it, Self the manager after it.          *)
(***************************************************************************)
\* The addresses inside the segments of a memory.
CellAddrs(mem) ==
    {Ptr(i - 1, j - 1) : i \in 1..Len(mem.data), j \in 1..(MaxOffset + 1)}
    \cup {Ptr(-i, j - 1) : i \in 1..Len(mem.temp_data), j \in 1..(MaxOffset + 1)}

Allocated(mem, a) ==
    IF a.seg < 0 THEN -(a.seg + 1) < Len(mem.temp_data) ELSE a.seg < Len(mem.data)

\* Element t of a load_data(ptr, data) cannot be inserted into mem.
Refused(mem, ptr, data, t) ==
    \/ ptr.tag # "Ptr"
    \/ ~Allocated(mem, ptr)
    \/ CellAt(mem, add_usize(ptr, t)) \notin {None, Some(data[t + 1])}

\* The number of leading elements of data that load_data(ptr, data) can insert.
Accepted(mem, ptr, data) ==
    LET bad == {t \in 0..(Len(data) - 1) : Refused(mem, ptr, data, t)}
    IN  IF bad = {} THEN Len(data)
        ELSE CHOOSE t \in bad : \A u \in bad : t <= u

\* The highest written offset of a segment plus one, 0 when nothing is written.
HighWater(segment) ==
    LET written == {j \in 1..Len(segment) : segment[j] # None}
    IN  IF written = {} THEN 0
        ELSE CHOOSE j \in written : \A k \in written : k <= j

\* The call left the two size tables and the public offsets alone.
Frame ==
    /\ segment_sizes = old.segment_sizes
    /\ segment_used_sizes = old.segment_used_sizes
    /\ public_memory_offsets = old.public_memory_offsets

(***************************************************************************)
(* C1  Write-once.  A populated cell never changes its value; an insert of *)
(* an equal value at a populated address succeeds and leaves the memory    *)
(* unchanged, an insert of a different value fails with the inconsistent   *)
(* memory error, whether the insert is made directly or by load_data.      *)
(***************************************************************************)
C1_WriteOnce ==
    /\ \A a \in CellAddrs(old.memory) :
          CellAt(old.memory, a) # None => CellAt(memory, a) = CellAt(old.memory, a)
    /\ (call.op = "insert" /\ call.key.tag = "Ptr"
        /\ CellAt(old.memory, call.key) # None)
       => IF CellAt(old.memory, call.key) = Some(call.val)
          THEN ret = Ok("unit") /\ memory = old.memory
          ELSE ret = Err([kind |-> "InconsistentMemory", addr |-> call.key,
                          old |-> CellAt(old.memory, call.key).v,
                          new |-> call.val])
    /\ (call.op = "load_data" /\ call.ptr.tag = "Ptr")
       => LET ptr == call.ptr
              data == call.data
              clash == {t \in 0..(Len(data) - 1) :
                           CellAt(old.memory, add_usize(ptr, t))
                               \notin {None, Some(data[t + 1])}}
              first == CHOOSE t \in clash : \A u \in clash : t <= u
          IN  IF clash # {}
              THEN ret = Err([kind |-> "InconsistentMemory",
                              addr |-> add_usize(ptr, first),
                              old |-> CellAt(old.memory, add_usize(ptr, first)).v,
                              new |-> data[first + 1]])
              ELSE Allocated(old.memory, ptr) => ret.ok

\* A load_data whose second element met a cell holding another value.
C1_Witness ==
    /\ call.op = "load_data"
    /\ ~ret.ok
    /\ ret.e.kind = "InconsistentMemory"
    /\ ret.e.addr = add_usize(call.ptr, 1)
    /\ CellAt(memory, ret.e.addr) = Some(ret.e.old)
    /\ ret.e.old # ret.e.new

(***************************************************************************)
(* C2  A failed insert changes nothing.  When a direct insert fails the    *)
(* whole manager is what it was before the call; when an insert made by    *)
(* load_data fails, the manager is what the inserts before it left: the    *)
(* accepted elements written, every other cell and every segment length as *)
(* before, sizes and public offsets untouched.                             *)
(***************************************************************************)
C2_InsertAtomic ==
    /\ (call.op = "insert" /\ ~ret.ok) => Self = old
    /\ (call.op = "load_data" /\ ~ret.ok)
       => LET ptr == call.ptr
              data == call.data
              n == Accepted(old.memory, ptr, data)
              written == {add_usize(ptr, t) : t \in 0..(n - 1)}
          IN  /\ Frame
              /\ Len(memory.data) = Len(old.memory.data)
              /\ memory.temp_data = old.memory.temp_data
              /\ n = 0 => memory = old.memory
              /\ \A a \in CellAddrs(memory) :
                    CellAt(memory, a) =
                        IF a \in written
                        THEN Some(data[a.off - ptr.off + 1])
                        ELSE CellAt(old.memory, a)
              /\ \A i \in 1..Len(memory.data) :
                    Len(memory.data[i]) =
                        IF n > 0 /\ ptr.seg = i - 1
                        THEN Max(Len(old.memory.data[i]), ptr.off + n)
                        ELSE Len(old.memory.data[i])

\* A direct insert refused for a conflicting value while a size is declared
\* or public offsets are recorded.
C2_Witness ==
    /\ call.op = "insert"
    /\ ~ret.ok
    /\ ret.e.kind = "InconsistentMemory"
    /\ DOMAIN segment_sizes \cup DOMAIN public_memory_offsets # {}

(***************************************************************************)
(* C3  add() on a manager with n real segments returns Ptr(n, 0), leaves   *)
(* n + 1 real segments of which the new one is empty, and changes nothing  *)
(* else.                                                                   *)
(***************************************************************************)
C3_Add ==
    call.op = "add"
    => LET n == Len(old.memory.data)
       IN  /\ ret = Ptr(n, 0)
           /\ Len(memory.data) = n + 1
           /\ memory.data[n + 1] = <<>>
           /\ SubSeq(memory.data, 1, n) = old.memory.data
           /\ memory.temp_data = old.memory.temp_data
           /\ Frame

\* The second real segment was added next to a written one, with effective
\* sizes already computed.
C3_Witness ==
    /\ call.op = "add"
    /\ ret = Ptr(1, 0)
    /\ Len(memory.data) = 2
    /\ Len(memory.data[1]) > 0
    /\ segment_used_sizes # None

(***************************************************************************)
(* C4  add_temporary_segment() on a manager with k temporary segments      *)
(* returns Ptr(-(k + 1), 0) and leaves k + 1 temporary segments; the real  *)
(* segments are unchanged, and neither the relocation table nor the        *)
(* effective sizes depend on the temporary segments.                       *)
(***************************************************************************)
NoTemp(self) == [self EXCEPT !.memory.temp_data = <<>>]

C4_AddTemporary ==
    /\ call.op = "add_temporary_segment"
       => LET k == Len(old.memory.temp_data)
          IN  /\ ret = Ptr(-(k + 1), 0)
              /\ Len(memory.temp_data) = k + 1
              /\ memory.data = old.memory.data
              /\ relocate_segments(Self) = relocate_segments(old)
    /\ relocate_segments(Self) = relocate_segments(NoTemp(Self))
    /\ compute_effective_sizes(Self).ret = compute_effective_sizes(NoTemp(Self)).ret

\* A second temporary segment was added to a manager whose relocation table
\* exists.
C4_Witness ==
    /\ call.op = "add_temporary_segment"
    /\ ret = Ptr(-2, 0)
    /\ Len(memory.data) > 0
    /\ relocate_segments(Self).ok

(***************************************************************************)
(* C5  A load_data(Ptr(s, o), xs) that succeeds has written xs[j] at       *)
(* Ptr(s, o + j) for every j, returns Ptr(s, o + len(xs)), and get_range   *)
(* reads xs back; with empty xs it returns the pointer and touches no      *)
(* memory, allocated segment or not.                                       *)
(***************************************************************************)
C5_LoadData ==
    (call.op = "load_data" /\ call.ptr.tag = "Ptr")
    => LET ptr == call.ptr
           data == call.data
       IN  /\ ret.ok
              => /\ \A j \in 0..(Len(data) - 1) :
                        CellAt(memory, add_usize(ptr, j)) = Some(data[j + 1])
                 /\ ret.v = Ptr(ptr.seg, ptr.off + Len(data))
                 /\ Memory_get_range(memory, ptr, Len(data)) = Ok(data)
           /\ data = <<>>
              => /\ ret = Ok(ptr)
                 /\ memory = old.memory

\* Two different values were loaded into a real segment.
C5_Witness ==
    /\ call.op = "load_data"
    /\ ret.ok
    /\ Len(call.data) = 2
    /\ call.data[1] # call.data[2]
    /\ ret.v = Ptr(call.ptr.seg, call.ptr.off + 2)

(***************************************************************************)
(* C6  The first compute_effective_sizes sets the effective sizes to one   *)
(* entry per real segment, the highest written offset plus one (holes      *)
(* counted, 0 for a segment never written), returns that vector, and       *)
(* leaves memory, declared sizes and public offsets as they were.          *)
(***************************************************************************)
C6_FirstCompute ==
    (call.op = "compute_effective_sizes" /\ old.segment_used_sizes = None)
    => /\ segment_used_sizes # None
       /\ Len(segment_used_sizes.v) = Len(old.memory.data)
       /\ \A i \in 1..Len(old.memory.data) :
             segment_used_sizes.v[i] = HighWater(old.memory.data[i])
       /\ ret = segment_used_sizes.v
       /\ memory = old.memory
       /\ segment_sizes = old.segment_sizes
       /\ public_memory_offsets = old.public_memory_offsets

\* The first call found a segment with a hole below its written cell.
C6_Witness ==
    /\ call.op = "compute_effective_sizes"
    /\ old.segment_used_sizes = None
    /\ \E i \in 1..Len(memory.data) :
          /\ Len(memory.data[i]) = 2
          /\ memory.data[i][1] = None
          /\ ret[i] = 2

(***************************************************************************)
(* C7  Once the effective sizes are set no call changes or unsets them,    *)
(* and every compute_effective_sizes returns the vector that is set.       *)
(***************************************************************************)
C7_Cached ==
    old.segment_used_sizes # None
    => /\ segment_used_sizes = old.segment_used_sizes
       /\ call.op = "compute_effective_sizes" => ret = old.segment_used_sizes.v

\* A later call returned the cached vector although a segment has grown
\* since.
C7_Witness ==
    /\ call.op = "compute_effective_sizes"
    /\ old.segment_used_sizes # None
    /\ \E i \in 1..Len(ret) : ret[i] < Len(memory.data[i])

(***************************************************************************)
(* C8  As claimed: after any successful insert at offset o of real segment *)
(* i, a compute_effective_sizes yields a vector whose entry for i is at    *)
(* least o + 1.  (Cells are written by successful inserts only.)           *)
(***************************************************************************)
Covers(sizes, mem) ==
    \A i \in 1..Len(mem.data) :
        \A j \in 1..Len(mem.data[i]) :
            mem.data[i][j] # None => (i <= Len(sizes) /\ sizes[i] >= j)

C8_Original ==
    call.op = "compute_effective_sizes" => Covers(ret, memory)

(***************************************************************************)
(* C8  Amended: the compute_effective_sizes that finds the effective sizes *)
(* unset yields a vector whose entry for segment i is at least o + 1 for   *)
(* every offset o of real segment i written before it.                     *)
(***************************************************************************)
C8_FirstCovers ==
    (call.op = "compute_effective_sizes" /\ old.segment_used_sizes = None)
    => Covers(ret, memory)

\* The first call on a memory some cell of which is written at offset 1.
C8_Witness ==
    /\ call.op = "compute_effective_sizes"
    /\ old.segment_used_sizes = None
    /\ \E i \in 1..Len(memory.data) :
          Len(memory.data[i]) = 2 /\ ret[i] >= 2

(***************************************************************************)
(* C9  get_segment_size(i) is the declared size of i when there is one,    *)
(* else the effective size of i when effective sizes are set and i is      *)
(* within them, else None.                                                 *)
(***************************************************************************)
C9_GetSegmentSize ==
    call.op = "get_segment_size"
    => LET i == call.index
       IN  IF i \in DOMAIN segment_sizes
           THEN ret = Some(segment_sizes[i])
           ELSE IF segment_used_sizes # None /\ i < Len(segment_used_sizes.v)
           THEN ret = Some(segment_used_sizes.v[i + 1])
           ELSE ret = None

\* The declared size was returned although a different effective size exists.
C9_Witness ==
    /\ call.op = "get_segment_size"
    /\ call.index \in DOMAIN segment_sizes
    /\ segment_used_sizes # None
    /\ call.index < Len(segment_used_sizes.v)
    /\ segment_used_sizes.v[call.index + 1] # segment_sizes[call.index]
    /\ ret = Some(segment_sizes[call.index])

(***************************************************************************)
(* C10  With effective sizes set, relocate_segments succeeds with a table  *)
(* R of one entry per effective size: R[0] = 1 and R[i] = R[i-1] +         *)
(* size(i-1), size being the declared size when there is one and the       *)
(* effective size otherwise; the total is not in R and nothing changes.    *)
(***************************************************************************)
SizeOf(j) ==
    IF j \in DOMAIN segment_sizes THEN segment_sizes[j]
    ELSE segment_used_sizes.v[j + 1]

RECURSIVE SumSizes(_)
SumSizes(n) == IF n = 0 THEN 0 ELSE SumSizes(n - 1) + SizeOf(n - 1)

C10_Relocate ==
    (call.op = "relocate_segments" /\ segment_used_sizes # None)
    => /\ ret.ok
       /\ Len(ret.v) = Len(segment_used_sizes.v)
       /\ Len(ret.v) >= 1 => ret.v[1] = 1
       /\ \A i \in 2..Len(ret.v) : ret.v[i] = ret.v[i - 1] + SizeOf(i - 2)
       /\ \A i \in 1..Len(ret.v) : ret.v[i] - 1 = SumSizes(i - 1)
       /\ Self = old

\* A table of two entries whose second entry comes from a declared size that
\* differs from the effective size.
C10_Witness ==
    /\ call.op = "relocate_segments"
    /\ ret.ok
    /\ Len(ret.v) = 2
    /\ 0 \in DOMAIN segment_sizes
    /\ segment_sizes[0] # segment_used_sizes.v[1]
    /\ ret.v[2] = 1 + segment_sizes[0]

(***************************************************************************)
(* C11  As claimed: whenever relocate_segments succeeds, the table it      *)
(* returns has as many entries as the manager has real segments.           *)
(***************************************************************************)
C11_Original ==
    (call.op = "relocate_segments" /\ ret.ok)
    => Len(ret.v) = num_segments(Self)

(***************************************************************************)
(* C12  As claimed: when relocate_segments is called with effective sizes  *)
(* set and some real segment has neither a declared nor an effective size, *)
(* the call fails with SegmentNotFinalized naming such a segment.          *)
(***************************************************************************)
Unsized(self) ==
    {i \in 0..(num_segments(self) - 1) : get_segment_size(self, i) = None}

C12_Original ==
    (call.op = "relocate_segments" /\ segment_used_sizes # None
     /\ Unsized(Self) # {})
    => /\ ~ret.ok
       /\ ret.e.kind = "SegmentNotFinalized"
       /\ ret.e.index \in Unsized(Self)

(***************************************************************************)
(* C13  As claimed: whenever relocate_segments succeeds, every real        *)
(* segment with a declared size has a declared size at least its length,   *)
(* so each written cell of segment i is relocated inside                   *)
(* [R[i], R[i] + size(i)) and below R[i + 1].                              *)
(***************************************************************************)
C13_Original ==
    (call.op = "relocate_segments" /\ ret.ok)
    => \A i \in 0..(num_segments(Self) - 1) :
          i \in DOMAIN segment_sizes
          => /\ segment_sizes[i] >= Len(memory.data[i + 1])
             /\ \A o \in 0..(Len(memory.data[i + 1]) - 1) :
                   (i < Len(ret.v) /\ memory.data[i + 1][o + 1] # None)
                   => /\ ret.v[i + 1] + o < ret.v[i + 1] + segment_sizes[i]
                      /\ i + 1 < Len(ret.v) => ret.v[i + 1] + o < ret.v[i + 2]

(***************************************************************************)
(* C14  While the effective sizes are unset, relocate_segments and         *)
(* is_valid_memory_value (for every value, integers included) fail with    *)
(* EffectiveSizesNotCalled and get_memory_holes (for every input, the      *)
(* empty one included, whatever sizes are declared) fails with             *)
(* MissingSegmentUsedSizes; none of the three changes the manager.         *)
(***************************************************************************)
C14_SizesNotComputed ==
    /\ call.op \in {"relocate_segments", "is_valid_memory_value",
                    "get_memory_holes"}
       => Self = old
    /\ (call.op \in {"relocate_segments", "is_valid_memory_value"}
        /\ segment_used_sizes = None)
       => ret = Err([kind |-> "EffectiveSizesNotCalled"])
    /\ (call.op = "get_memory_holes" /\ segment_used_sizes = None)
       => ret = Err([kind |-> "MissingSegmentUsedSizes"])

\* get_memory_holes refused an empty input on a manager with a declared size
\* and no effective sizes.
C14_Witness ==
    /\ call.op = "get_memory_holes"
    /\ call.accessed_addresses = <<>>
    /\ segment_used_sizes = None
    /\ DOMAIN segment_sizes # {}
    /\ ~ret.ok

(***************************************************************************)
(* C15  With effective sizes set, is_valid_memory_value is true for every  *)
(* integer, and for Ptr(s, o) with s >= 0 it is true exactly when s is     *)
(* below the number of effective sizes, whatever o and whatever the        *)
(* number of real segments.                                                *)
(***************************************************************************)
C15_IsValid ==
    (call.op = "is_valid_memory_value" /\ segment_used_sizes # None)
    => /\ call.value.tag = "Int" => ret = Ok(TRUE)
       /\ (call.value.tag = "Ptr" /\ call.value.seg >= 0)
          => ret = Ok(call.value.seg < Len(segment_used_sizes.v))

\* A pointer into an existing real segment that is not valid.
C15_Witness ==
    /\ call.op = "is_valid_memory_value"
    /\ call.value.tag = "Ptr"
    /\ call.value.seg >= 0
    /\ call.value.seg < num_segments(Self)
    /\ ret = Ok(FALSE)

(***************************************************************************)
(* C16  As claimed: is_valid_memory_value(Ptr(s, o)) fails with            *)
(* AddressInTemporarySegment(s) for every s < 0 and every o.               *)
(***************************************************************************)
C16_Original ==
    (call.op = "is_valid_memory_value"
     /\ call.value.tag = "Ptr" /\ call.value.seg < 0)
    => ret = Err([kind |-> "AddressInTemporarySegment",
                  index |-> call.value.seg])

(***************************************************************************)
(* C16  Amended: with effective sizes set, is_valid_memory_value(Ptr(s,    *)
(* o)) fails with AddressInTemporarySegment(s) for every s < 0 and every   *)
(* o.                                                                      *)
(***************************************************************************)
C16_TemporaryInvalid ==
    (call.op = "is_valid_memory_value" /\ segment_used_sizes # None
     /\ call.value.tag = "Ptr" /\ call.value.seg < 0)
    => ret = Err([kind |-> "AddressInTemporarySegment",
                  index |-> call.value.seg])

\* Refused for a temporary segment that exists and holds a value.
C16_Witness ==
    /\ call.op = "is_valid_memory_value"
    /\ call.value = Ptr(-1, 0)
    /\ CellAt(memory, Ptr(-1, 0)) # None
    /\ ~ret.ok
    /\ ret.e.kind = "AddressInTemporarySegment"

(***************************************************************************)
(* C17  As claimed: when get_memory_holes succeeds, its result is the sum, *)
(* over every real segment that has a declared or an effective size, of    *)
(* that size (the declared one preferred) minus the number of distinct     *)
(* touched offsets of the segment.                                         *)
(***************************************************************************)
TouchedOffsets(accessed_addresses, i) ==
    {accessed_addresses[k].off : k \in {j \in 1..Len(accessed_addresses) :
                                           accessed_addresses[j].seg = i}}

RECURSIVE HolesFormula(_, _, _)
HolesFormula(self, accessed_addresses, n) ==
    IF n = 0 THEN 0
    ELSE HolesFormula(self, accessed_addresses, n - 1)
         + (IF get_segment_size(self, n - 1) # None
            THEN get_segment_size(self, n - 1).v
                 - Cardinality(TouchedOffsets(accessed_addresses, n - 1))
            ELSE 0)

\* A call that wrapped below zero is left aside here: it returned no count.
C17_Original ==
    (call.op = "get_memory_holes" /\ ret.ok /\ "v" \in DOMAIN ret)
    => ret.v = HolesFormula(Self, call.accessed_addresses, num_segments(Self))

(***************************************************************************)
(* C18  As claimed: get_memory_holes fails, instead of returning a count,  *)
(* when a touched address has an offset equal to the size of its segment.  *)
(***************************************************************************)
C18_Original ==
    (call.op = "get_memory_holes" /\ segment_used_sizes # None
     /\ \E k \in 1..Len(call.accessed_addresses) :
           LET addr == call.accessed_addresses[k]
           IN  /\ addr.seg >= 0
               /\ get_segment_size(Self, addr.seg) = Some(addr.off))
    => ~ret.ok

(***************************************************************************)
(* C19  As claimed: with effective sizes set, get_memory_holes fails on    *)
(* the first touched address, in iteration order, whose segment has        *)
(* neither a declared nor an effective size (SegmentNotFinalized) or whose *)
(* offset is greater than the size of its segment (the error carrying that *)
(* address and that size); the call changes no state.                      *)
(***************************************************************************)
\* The size of the segment an address names; a temporary segment has none.
SizeAt(addr) ==
    IF addr.seg < 0 THEN None ELSE get_segment_size(Self, addr.seg)

C19_Original ==
    (call.op = "get_memory_holes" /\ segment_used_sizes # None)
    => LET acc == call.accessed_addresses
           bad == {k \in 1..Len(acc) :
                      SizeAt(acc[k]) = None \/ acc[k].off > SizeAt(acc[k]).v}
           first == CHOOSE k \in bad : \A j \in bad : k <= j
       IN  /\ Self = old
           /\ bad # {}
              => /\ ~ret.ok
                 /\ IF SizeAt(acc[first]) = None
                    THEN ret.e.kind = "SegmentNotFinalized"
                    ELSE ret.e = [kind |-> "AccessedAddressOffsetBiggerThanSegmentSize",
                                  addr |-> acc[first],
                                  size |-> SizeAt(acc[first]).v]

(***************************************************************************)
(* C20  finalize(size, i, public) sets segment_sizes[i] to size only when  *)
(* a size is given and public_memory_offsets[i] to public only when a      *)
(* public memory is given, replacing any earlier entry of i; the other     *)
(* map, the entries of the other segments, every memory cell, the segment  *)
(* counts and segment_used_sizes are unchanged, and finalize(None, i,      *)
(* None) changes nothing at all.                                           *)
(***************************************************************************)
\* The map after is the map before with the entry of i set to given.v when
\* given is not None.
SetsOnly(after, before, i, given) ==
    /\ DOMAIN after = DOMAIN before \cup (IF given # None THEN {i} ELSE {})
    /\ \A j \in DOMAIN after :
           after[j] = IF j = i /\ given # None THEN given.v ELSE before[j]

C20_FinalizeFrame ==
    call.op = "finalize"
    => /\ SetsOnly(segment_sizes, old.segment_sizes,
                   call.segment_index, call.size)
       /\ SetsOnly(public_memory_offsets, old.public_memory_offsets,
                   call.segment_index, call.public_memory)
       /\ memory = old.memory
       /\ num_segments(Self) = num_segments(old)
       /\ num_temp_segments(Self) = num_temp_segments(old)
       /\ segment_used_sizes = old.segment_used_sizes
       /\ (call.size = None /\ call.public_memory = None) => Self = old

\* A declared size replaces an earlier, different one, next to the entry of
\* another segment and with no public memory given.
C20_Witness ==
    /\ call.op = "finalize"
    /\ call.size = Some(MaxSize)
    /\ call.public_memory = None
    /\ call.segment_index \in DOMAIN old.segment_sizes
    /\ old.segment_sizes[call.segment_index] = 0
    /\ segment_sizes[call.segment_index] = MaxSize
    /\ DOMAIN segment_sizes # {call.segment_index}
    /\ public_memory_offsets = old.public_memory_offsets

(***************************************************************************)
(* C21  gen_arg on a manager with n real segments: a single value (Int or  *)
(* Ptr) is returned as it is and nothing is allocated; a sequence of       *)
(* values or of addresses allocates exactly one new real segment n, is     *)
(* written at offsets 0..len-1 of it, and Ptr(n, 0) is returned; any other *)
(* shape fails with GenArgInvalidType and nothing is allocated.            *)
(***************************************************************************)
\* The memory after has the real segments of the memory before, followed by
\* one new segment holding exactly the cells of vector.
OneNewSegment(after, before, vector) ==
    LET n == Len(before.data)
    IN  /\ Len(after.data) = n + 1
        /\ \A i \in 1..n : after.data[i] = before.data[i]
        /\ after.temp_data = before.temp_data
        /\ Len(after.data[n + 1]) = Len(vector)
        /\ \A j \in 1..Len(vector) :
               CellAt(after, Ptr(n, j - 1)) = Some(vector[j])

C21_GenArg ==
    call.op = "gen_arg"
    => LET arg == call.arg
           n == num_segments(old)
       IN  /\ Frame
           /\ arg.type = "MaybeRelocatable"
              => ret = Ok(arg.value) /\ memory = old.memory
           /\ arg.type \in {"VecMaybeRelocatable", "VecRelocatable"}
              => /\ ret = Ok(Ptr(n, 0))
                 /\ OneNewSegment(memory, old.memory, arg.vector)
           /\ arg.type = "Other"
              => ret = Err([kind |-> "GenArgInvalidType"]) /\ memory = old.memory

\* A sequence of addresses was marshaled on a manager that already had a
\* segment: the new segment is the second.
C21_Witness ==
    /\ call.op = "gen_arg"
    /\ call.arg.type = "VecRelocatable"
    /\ num_segments(old) >= 1
    /\ ret = Ok(Ptr(num_segments(old), 0))
    /\ CellAt(memory, Ptr(num_segments(old), 0)) = Some(call.arg.vector[1])

(***************************************************************************)
(* C22  gen_cairo_arg(Composed(cs)) on a manager with n real segments      *)
(* marshals the children left to right and allocates the parent segment    *)
(* after all of them: a Single allocates nothing and yields its value,     *)
(* each Array or Composed node allocates exactly one segment, the parent   *)
(* is the last segment allocated, so the result is Ptr(n + m, 0) with m    *)
(* the number of Array and Composed nodes strictly below the parent, and   *)
(* cell j of the parent segment holds the result of marshaling child j.    *)
(***************************************************************************)
RECURSIVE AllocatingNodes(_)
RECURSIVE NodesIn(_, _)
\* The Array and Composed nodes of the first k arguments of cs.
NodesIn(cs, k) ==
    IF k = 0 THEN 0 ELSE NodesIn(cs, k - 1) + AllocatingNodes(cs[k])

\* The Array and Composed nodes of an argument, itself included.
AllocatingNodes(arg) ==
    IF arg.variant = "Single" THEN 0
    ELSE IF arg.variant = "Array" THEN 1
    ELSE 1 + NodesIn(arg.cairo_args, Len(arg.cairo_args))

\* What child j of cs marshals to when the first segment free is n: its value,
\* or the base of the last segment its subtree allocates.
Marshaled(n, cs, j) ==
    IF cs[j].variant = "Single"
    THEN cs[j].value
    ELSE Ptr(n + NodesIn(cs, j) - 1, 0)

C22_ComposedOrder ==
    (call.op = "gen_cairo_arg" /\ call.arg.variant = "Composed")
    => LET cs == call.arg.cairo_args
           n == num_segments(old)
           m == NodesIn(cs, Len(cs))
       IN  /\ ret = Ok(Ptr(n + m, 0))
           /\ num_segments(Self) = n + m + 1
           /\ \A i \in 1..n : memory.data[i] = old.memory.data[i]
           /\ memory.temp_data = old.memory.temp_data
           /\ Frame
           /\ Len(memory.data[n + m + 1]) = Len(cs)
           /\ \A j \in 1..Len(cs) :
                  /\ CellAt(memory, Ptr(n + m, j - 1)) = Some(Marshaled(n, cs, j))
                  /\ cs[j].variant = "Array"
                     => memory.data[Marshaled(n, cs, j).seg + 1]
                            = [k \in 1..Len(cs[j].values) |-> Some(cs[j].values[k])]

\* Two children that both allocate, the second with other content than the
\* first: they take segments n and n + 1 in that order, the parent n + 2.
C22_Witness ==
    /\ call.op = "gen_cairo_arg"
    /\ call.arg = Composed(<<Array(<<>>), Array(<<IntV(2)>>)>>)
    /\ ret = Ok(Ptr(num_segments(old) + 2, 0))
    /\ memory.data[num_segments(old) + 1] = <<>>
    /\ memory.data[num_segments(old) + 2] = <<Some(IntV(2))>>
    /\ memory.data[num_segments(old) + 3]
           = <<Some(Ptr(num_segments(old), 0)), Some(Ptr(num_segments(old) + 1, 0))>>

(***************************************************************************)
(* C23  A set_add that succeeds: if some row of width elm_size of the set  *)
(* equals the elm_size cells at elm_ptr, it has written is_elm_in_set = 1  *)
(* and index = the smallest such row number; if no row matches, it has     *)
(* written is_elm_in_set = 0 and left the index cell as it was, a hole; in *)
(* both cases no other memory cell has changed and no segment has been     *)
(* allocated.  The rows of the set are those that begin at set_ptr + r *   *)
(* elm_size before set_end_ptr.                                            *)
(***************************************************************************)
\* The variables of the hint, as the frame of the memory holds them.
VarOf(mem, var_name) == CellAt(mem, IdsData[var_name]).v

\* The row numbers of the set in mem: rows that begin before set_end_ptr.
Rows(mem) ==
    {r \in 0..(MaxLen + 1) :
        r * VarOf(mem, "elm_size").n
            < VarOf(mem, "set_end_ptr").off - VarOf(mem, "set_ptr").off}

\* Row r of the set equals the element, cell by cell.
RowEquals(mem, r) ==
    \A k \in 0..(VarOf(mem, "elm_size").n - 1) :
        CellAt(mem, add_usize(VarOf(mem, "set_ptr"),
                              r * VarOf(mem, "elm_size").n + k))
            = CellAt(mem, add_usize(VarOf(mem, "elm_ptr"), k))

Matching(mem) == {r \in Rows(mem) : RowEquals(mem, r)}

\* Every cell but the two output cells is as before, and so is every length.
OnlyOutputs ==
    /\ Frame
    /\ memory.temp_data = old.memory.temp_data
    /\ Len(memory.data) = Len(old.memory.data)
    /\ \A i \in 1..Len(memory.data) :
           /\ Len(memory.data[i]) = Len(old.memory.data[i])
           /\ \A j \in 1..Len(memory.data[i]) :
                  Ptr(i - 1, j - 1) \notin {IdsData.is_elm_in_set, IdsData.index}
                  => memory.data[i][j] = old.memory.data[i][j]

C23_SetAdd ==
    (call.op = "set_add" /\ ret.ok)
    => /\ OnlyOutputs
       /\ IF Matching(old.memory) # {}
          THEN /\ CellAt(memory, IdsData.is_elm_in_set) = Some(IntV(1))
               /\ \E r \in Matching(old.memory) :
                      /\ \A q \in Matching(old.memory) : r <= q
                      /\ CellAt(memory, IdsData.index) = Some(IntV(r))
          ELSE /\ CellAt(memory, IdsData.is_elm_in_set) = Some(IntV(0))
               /\ CellAt(memory, IdsData.index) = CellAt(old.memory, IdsData.index)

\* The element was found in the second row of a set whose first row differs,
\* and both output cells were holes before.
C23_Witness ==
    /\ call.op = "set_add"
    /\ ret.ok
    /\ CellAt(old.memory, IdsData.is_elm_in_set) = None
    /\ CellAt(old.memory, IdsData.index) = None
    /\ CellAt(memory, IdsData.is_elm_in_set) = Some(IntV(1))
    /\ CellAt(memory, IdsData.index) = Some(IntV(1))

(***************************************************************************)
(* C24  set_add rejects bad arguments before writing anything: elm_size =  *)
(* 0 fails with ValueNotPositive(0); an elm_size that is negative or does  *)
(* not fit a machine word fails with BigintToUsizeFail; set_ptr and        *)
(* set_end_ptr in the same segment with set_ptr's offset greater than      *)
(* set_end_ptr's fail with InvalidSetRange(set_ptr, set_end_ptr).  In each *)
(* case neither is_elm_in_set nor index is written.  Each bad argument is  *)
(* taken with the other arguments good: for the range, elm_size is a       *)
(* positive word and the elm_size cells at elm_ptr are written.            *)
(***************************************************************************)
\* The elm_size cells at elm_ptr are all written.
ElmWritten(mem) ==
    \A k \in 0..(VarOf(mem, "elm_size").n - 1) :
        CellAt(mem, add_usize(VarOf(mem, "elm_ptr"), k)) # None

C24_BadArguments ==
    (call.op = "set_add" /\ VarOf(old.memory, "elm_size").tag = "Int")
    => LET elm_size == VarOf(old.memory, "elm_size").n
           set_ptr == VarOf(old.memory, "set_ptr")
           set_end_ptr == VarOf(old.memory, "set_end_ptr")
       IN  /\ elm_size = 0
              => /\ ret = Err([kind |-> "ValueNotPositive", value |-> 0])
                 /\ Self = old
           /\ (elm_size < 0 \/ elm_size >= UsizeLimit)
              => /\ ret = Err([kind |-> "BigintToUsizeFail"])
                 /\ Self = old
           /\ (/\ elm_size >= 1
               /\ elm_size < UsizeLimit
               /\ ElmWritten(old.memory)
               /\ set_ptr.seg = set_end_ptr.seg
               /\ set_ptr.off > set_end_ptr.off)
              => /\ ret = Err([kind |-> "InvalidSetRange", begin |-> set_ptr,
                               end |-> set_end_ptr])
                 /\ Self = old

\* The range of spec S5, one cell shorter: the set begins after its end.
C24_Witness ==
    /\ call.op = "set_add"
    /\ ret = Err([kind |-> "InvalidSetRange", begin |-> Ptr(2, 1),
                  end |-> Ptr(2, 0)])
    /\ CellAt(memory, IdsData.is_elm_in_set) = None
    /\ CellAt(memory, IdsData.index) = None

(***************************************************************************)
(* C25  set_add enforces that set_ptr and set_end_ptr are in the same      *)
(* segment with set_ptr <= set_end_ptr: for every pair of pointers in      *)
(* different segments, whichever segment index is larger, or with          *)
(* set_ptr's offset above set_end_ptr's, set_add fails with                *)
(* InvalidSetRange.  The other arguments are good: elm_size is a positive  *)
(* word and the elm_size cells at elm_ptr are written.                     *)
(***************************************************************************)
C25_Original ==
    (/\ call.op = "set_add"
     /\ VarOf(old.memory, "elm_size").tag = "Int"
     /\ VarOf(old.memory, "elm_size").n >= 1
     /\ VarOf(old.memory, "elm_size").n < UsizeLimit
     /\ ElmWritten(old.memory)
     /\ \/ VarOf(old.memory, "set_ptr").seg
             # VarOf(old.memory, "set_end_ptr").seg
        \/ VarOf(old.memory, "set_ptr").off
             > VarOf(old.memory, "set_end_ptr").off)
    => /\ ~ret.ok
       /\ ret.e.kind = "InvalidSetRange"

(***************************************************************************)
(* C26  Segments are never deallocated: across every sequence of manager   *)
(* operations the number of real segments and the number of temporary      *)
(* segments never decrease, and only add, gen_arg and gen_cairo_arg        *)
(* increase the number of real segments.                                   *)
(***************************************************************************)
C26_NeverDeallocated ==
    /\ num_segments(Self) >= num_segments(old)
    /\ num_temp_segments(Self) >= num_temp_segments(old)
    /\ num_segments(Self) > num_segments(old)
       => call.op \in {"add", "gen_arg", "gen_cairo_arg"}

\* gen_arg allocates a real segment on a manager that holds a temporary one,
\* which is still there.
C26_Witness ==
    /\ call.op = "gen_arg"
    /\ num_segments(old) = 0
    /\ num_temp_segments(old) = 1
    /\ num_segments(Self) = 1
    /\ num_temp_segments(Self) = 1

(***************************************************************************)
(* C27  get_memory_holes counts only segments that have at least one       *)
(* touched address: with effective sizes set and an empty collection of    *)
(* touched addresses it returns 0 whatever the effective and declared      *)
(* sizes are, and a segment with a size but no touched address contributes *)
(* 0 to the result: a result is the sum, over the touched segments below   *)
(* max(len(declared sizes), len(effective sizes)) only, of the size minus  *)
(* the number of distinct touched offsets.                                 *)
(***************************************************************************)
\* Size minus touched offsets, summed over a set of segment indexes.
RECURSIVE TouchedHoles(_, _, _)
TouchedHoles(self, accessed_addresses, indexes) ==
    IF indexes = {} THEN 0
    ELSE LET index == CHOOSE i \in indexes : TRUE
         IN  (get_segment_size(self, index).v
              - Cardinality(TouchedOffsets(accessed_addresses, index)))
             + TouchedHoles(self, accessed_addresses, indexes \ {index})

C27_TouchedOnly ==
    (/\ call.op = "get_memory_holes"
     /\ old.segment_used_sizes # None)
    => LET accessed_addresses == call.accessed_addresses
           touched == {accessed_addresses[k].seg :
                          k \in DOMAIN accessed_addresses}
           max == Max(Cardinality(DOMAIN old.segment_sizes),
                      Len(old.segment_used_sizes.v))
       IN  /\ accessed_addresses = <<>> => ret = Ok(0)
           /\ (/\ ret.ok
               /\ "v" \in DOMAIN ret
               /\ \A index \in touched : index >= 0)
              => ret.v = TouchedHoles(old, accessed_addresses,
                                      {index \in touched : index < max})

\* Segment 1 is touched and counted; segment 0 has a size of at least one and
\* no touched address, and adds nothing.
C27_Witness ==
    /\ call.op = "get_memory_holes"
    /\ old.segment_used_sizes # None
    /\ call.accessed_addresses = <<Ptr(1, 0)>>
    /\ get_segment_size(old, 0) # None
    /\ get_segment_size(old, 0).v >= 1
    /\ ret = Ok(MaxSize - 1)

(***************************************************************************)
(* C28  As claimed: in get_memory_holes the per-segment subtraction never  *)
(* underflows: for every collection of touched addresses that passes the   *)
(* offset check, the number of distinct touched offsets of each segment is *)
(* at most that segment's size, and the call returns a count, a            *)
(* non-negative integer.                                                   *)
(***************************************************************************)
\* Every touched address is in a real segment that has a size, at an offset
\* the test of line 219 lets through.
PassesOffsetCheck(self, accessed_addresses) ==
    \A k \in DOMAIN accessed_addresses :
        LET addr == accessed_addresses[k]
        IN  /\ addr.seg >= 0
            /\ get_segment_size(self, addr.seg) # None
            /\ ~(addr.off > get_segment_size(self, addr.seg).v)

C28_Original ==
    (/\ call.op = "get_memory_holes"
     /\ old.segment_used_sizes # None
     /\ PassesOffsetCheck(old, call.accessed_addresses))
    => /\ \A k \in DOMAIN call.accessed_addresses :
              LET index == call.accessed_addresses[k].seg
              IN  Cardinality(TouchedOffsets(call.accessed_addresses, index))
                      <= get_segment_size(old, index).v
       /\ ret.ok
       /\ "v" \in DOMAIN ret
       /\ ret.v >= 0

(***************************************************************************)
(* C29  As claimed: set_add reads set rows only inside [set_ptr,           *)
(* set_end_ptr): for every elm_size >= 1 and every valid range, including  *)
(* a range whose length is not a multiple of elm_size, no get_range on the *)
(* set covers a cell at or beyond set_end_ptr, so the outcome (the result  *)
(* and the two output cells) is the same whatever those cells hold.        *)
(***************************************************************************)
\* set_add was called with a positive word as elm_size and a range of one
\* segment that does not end before it begins.
ValidRange(mem) ==
    /\ VarOf(mem, "elm_size").tag = "Int"
    /\ VarOf(mem, "elm_size").n >= 1
    /\ VarOf(mem, "elm_size").n < UsizeLimit
    /\ VarOf(mem, "set_ptr").seg = VarOf(mem, "set_end_ptr").seg
    /\ VarOf(mem, "set_ptr").off <= VarOf(mem, "set_end_ptr").off

\* The memories that differ from mem only in cells of the set's segment at or
\* after set_end_ptr, the cells of elm aside: those cells written, with other
\* values, or holes.
BeyondSetEnd(mem) ==
    LET seg == VarOf(mem, "set_ptr").seg
        elm_ptr == VarOf(mem, "elm_ptr")
        segment == mem.data[seg + 1]
        end == IF elm_ptr.seg = seg
               THEN Max(VarOf(mem, "set_end_ptr").off,
                        elm_ptr.off + VarOf(mem, "elm_size").n)
               ELSE VarOf(mem, "set_end_ptr").off
        keep == IF end <= MaxLen + 1 THEN end ELSE MaxLen + 1
        head == [j \in 1..keep |->
                    IF j <= Len(segment) THEN segment[j] ELSE None]
    IN  {[mem EXCEPT !.data[seg + 1] = head \o tail] :
            tail \in CellSeqs(MaxLen + 1 - keep)}

\* set_add on mem ends as the call recorded in the state did.
SameOutcome(mem) ==
    LET r == set_add(mem, IdsData)
    IN  /\ r.ret = ret
        /\ CellAt(r.mem, IdsData.is_elm_in_set)
               = CellAt(memory, IdsData.is_elm_in_set)
        /\ CellAt(r.mem, IdsData.index) = CellAt(memory, IdsData.index)

C29_Original ==
    (call.op = "set_add" /\ ValidRange(old.memory))
    => \A mem \in BeyondSetEnd(old.memory) : SameOutcome(mem)

(***************************************************************************)
(* C29  Amended: for every elm_size >= 1 and every valid range whose       *)
(* length is a multiple of elm_size, set_add reads set rows only inside    *)
(* [set_ptr, set_end_ptr), so the outcome is the same whatever the cells   *)
(* of the set's segment at or after set_end_ptr hold.                      *)
(***************************************************************************)
C29_WholeRows ==
    (/\ call.op = "set_add"
     /\ ValidRange(old.memory)
     /\ (VarOf(old.memory, "set_end_ptr").off
           - VarOf(old.memory, "set_ptr").off)
          % VarOf(old.memory, "elm_size").n = 0)
    => \A mem \in BeyondSetEnd(old.memory) : SameOutcome(mem)

\* A miss over one whole row of two cells, with a written cell after
\* set_end_ptr that holds the second cell of the element: the row that would
\* begin inside the range and end there is not read.
C29_Witness ==
    /\ call.op = "set_add"
    /\ VarOf(old.memory, "set_ptr") = Ptr(2, 0)
    /\ VarOf(old.memory, "set_end_ptr") = Ptr(2, 2)
    /\ VarOf(old.memory, "elm_size") = IntV(2)
    /\ Len(old.memory.data[3]) = 3
    /\ ret = Ok("unit")
    /\ CellAt(memory, IdsData.is_elm_in_set) = Some(IntV(0))
    /\ CellAt(old.memory, IdsData.is_elm_in_set) = None

(***************************************************************************)
(* C30  As claimed: set_add has no partial effect: whenever set_add        *)
(* returns an error, including a write-once conflict on is_elm_in_set      *)
(* after a matching row was found, every memory cell, and in particular    *)
(* the index cell, is what it was before the call.                         *)
(***************************************************************************)
C30_Original ==
    (call.op = "set_add" /\ ~ret.ok)
    => /\ Self = old
       /\ CellAt(memory, IdsData.index) = CellAt(old.memory, IdsData.index)

(***************************************************************************)
(* C30  Amended: whenever set_add returns an error, every memory cell but  *)
(* the index cell is what it was before the call, and so is the index cell *)
(* unless the error is the write-once conflict on is_elm_in_set after a    *)
(* matching row was found: then the index cell, a hole before, holds the   *)
(* number of the first matching row.                                       *)
(***************************************************************************)
C30_IndexOnly ==
    (call.op = "set_add" /\ ~ret.ok)
    => /\ OnlyOutputs
       /\ CellAt(memory, IdsData.is_elm_in_set)
              = CellAt(old.memory, IdsData.is_elm_in_set)
       /\ \/ CellAt(memory, IdsData.index) = CellAt(old.memory, IdsData.index)
          \/ /\ ret.e.kind = "InconsistentMemory"
             /\ ret.e.addr = IdsData.is_elm_in_set
             /\ CellAt(old.memory, IdsData.index) = None
             /\ \E r \in Matching(old.memory) :
                    /\ \A q \in Matching(old.memory) : r <= q
                    /\ CellAt(memory, IdsData.index) = Some(IntV(r))

\* is_elm_in_set held 0 and index was a hole; the element is in the second
\* row: index is written, and the write of is_elm_in_set = 1 is refused.
C30_Witness ==
    /\ call.op = "set_add"
    /\ ~ret.ok
    /\ ret.e.kind = "InconsistentMemory"
    /\ CellAt(old.memory, IdsData.is_elm_in_set) = Some(IntV(0))
    /\ CellAt(memory, IdsData.is_elm_in_set) = Some(IntV(0))
    /\ CellAt(old.memory, IdsData.index) = None
    /\ CellAt(memory, IdsData.index) = Some(IntV(1))

(***************************************************************************)
(* C31  load_data is not rolled back on failure: when the insert of xs[j]  *)
(* fails, load_data(Ptr(s, o), xs) returns that insert's error, the cells  *)
(* Ptr(s, o + t) for t < j keep the values xs[t] just written, and no cell *)
(* at offset o + j or beyond is written by the call.                       *)
(***************************************************************************)
C31_NotRolledBack ==
    (call.op = "load_data" /\ ~ret.ok)
    => LET ptr == call.ptr
           data == call.data
           j == Accepted(old.memory, ptr, data)
       IN  /\ j < Len(data)
           /\ ret = Memory_insert(old.memory, add_usize(ptr, j),
                                  data[j + 1]).ret
           /\ ptr.tag = "Ptr"
              => /\ \A t \in 0..(j - 1) :
                        CellAt(memory, add_usize(ptr, t)) = Some(data[t + 1])
                 /\ \A t \in j..(MaxOffset + 1) :
                        CellAt(memory, add_usize(ptr, t))
                            = CellAt(old.memory, add_usize(ptr, t))

\* The second element is refused by a cell that holds another value; the
\* first was written into a hole and stays.
C31_Witness ==
    /\ call.op = "load_data"
    /\ ~ret.ok
    /\ ret.e.kind = "InconsistentMemory"
    /\ Len(call.data) = 2
    /\ ret.e.addr = add_usize(call.ptr, 1)
    /\ CellAt(old.memory, call.ptr) = None
    /\ CellAt(memory, call.ptr) = Some(call.data[1])

====
